---- MODULE Spec2Model ----
(***************************************************************************)
(* SystemBridge: the file-watch debouncing pipeline (FileWatcher) and the  *)
(* process lifecycle manager (ProcessManager).                             *)
(*                                                                         *)
(* Eight specifications share this module:                                 *)
(*   Spec      FileWatcher: subscribe, raw signals, watcher errors, the    *)
(*             debounce timer, flush, subscription close, dispose.         *)
(*   ProcSpec  ProcessManager: launchProcess, abort signal, child exit,    *)
(*             wait, kill, dispose.                                        *)
(*   ListSpec  ProcessManager.listProcesses as a pure function of the      *)
(*             process table and the filter.                               *)
(*   MapSpec   mapEvent of the FileWatcher as a pure function of the raw   *)
(*             signal, its path and the cwd option.                        *)
(*   ReqSpec   the explicit requests getResourceUsage, killProcess,        *)
(*             listProcesses and launchProcess with what their             *)
(*             collaborators raise, and SystemBridge.shutdown.             *)
(*   ReentrySpec  Spec plus a handler that queues an event for its own     *)
(*             subscription while flush is delivering.                     *)
(*   LogSpec   createLogger: the level filter in front of a sink.          *)
(*   ExecSpec  execCommand: the timeout timer, child exit, child error.    *)
(* Each specification leaves the variables of the others untouched, but    *)
(* for killProcess, which signals a child of the manager by its pid.       *)
(***************************************************************************)
EXTENDS Integers, Sequences, FiniteSets

\* ---------------------------------------------------------------- bounds
MaxSubs == 1
MaxEvents == 2
MaxProcs == 1
MaxWaits == 1
MaxKillCalls == 1
MaxTable == 2
MaxRequests == 2
MaxExecs == 2

\* ------------------------------------------------------ program constants
DefaultDebounceMs == 50

Subs == 1..MaxSubs

\* debounceMs values a caller passes: 0 (synchronous) and the default
DebounceValues == {0, DefaultDebounceMs}

VARIABLES
  \* ---- FileWatcher
  watcher,         \* per subscription: the underlying handle "none" | "open" | "closing" | "closed" | "failed"
  debounce,        \* per subscription: debounceMs
  pending,         \* per subscription: the pending queue
  timer,           \* per subscription: the timer variable "unset" | "armed" | "stale" (fired, not cleared)
  timers,          \* per subscription: the timeouts that were set and have neither fired nor been cleared
  activeWatchers,  \* FileWatcher.activeWatchers
  closeP,          \* per subscription: promise of close() "none" | "pending" | "resolved" | "rejected"
  disposeP,        \* promise of FileWatcher.dispose() "none" | "pending" | "resolved" | "rejected"
  disposeWait,     \* the subscriptions dispose() is awaiting
  nextId,          \* history: the number of raw signals emitted so far
  arrived,         \* history: per subscription, the events handed to queueEvent, in order
  delivered,       \* history: per subscription, the events passed to the handler, in order
  logged,          \* history: the number of handler errors caught and logged
  escaped,         \* history: the number of handler errors that reached the watcher's emit
  lastFlush,       \* history: per subscription, who ran the last flush that delivered something, and its batch
  afterClose,      \* history: the number of handler invocations after close() of their subscription resolved
  watchErrors,     \* history: the number of 'error' signals of a watcher that were logged
  \* ---- ProcessManager
  child,           \* per child: "none" | "running" | "spawnfail" | "errored" | "exited" | "killed"
  exitCode,        \* per child: child.exitCode
  signalCode,      \* per child: child.signalCode
  managed,         \* ProcessManager.managed
  usesSignal,      \* per child: launched with options.abortSignal
  aborted,         \* abortSignal.aborted
  listeners,       \* children whose abort listener is attached to the signal
  sent,            \* per child: the signals sent to the live child
  waits,           \* per child, per wait() call: "none" | "listening" | "resolved" | "rejected"
  waitResult,      \* per child, per wait() call: the value the promise resolved with
  preAborted,      \* history: per child, abortSignal.aborted held when it was launched
  binds,           \* history: per child, the number of addEventListener('abort') calls
  abortTerms,      \* history: per child, the SIGTERMs abort() delivered to it
  removals,        \* history: per child, the number of times it left the managed set
  killCalls,       \* history: the number of kill() calls on handles
  disposedNow,     \* history: dispose() has completed and nothing was launched since
  disposeEnd,      \* history: of that dispose(), the children whose signalling threw and was logged, and how its promise settled
  \* ---- listProcesses
  lpTable,         \* what psList() returns
  lpFilter,        \* the filter argument
  lpResult,        \* the returned list
  \* ---- mapEvent
  mapCwd,          \* the cwd option of the subscription
  mapped,          \* the last raw signal and the canonical event made of it
  \* ---- explicit requests and shutdown
  replies,         \* history: the requests made so far, each with what its collaborator did and what the caller got
  modP,            \* per module: its dispose() in shutdown() "none" | "returned" | "pending" | "fulfilled" | "rejected"
  shutP,           \* promise of SystemBridge.shutdown() "none" | "pending" | "resolved" | "rejected"
  \* ---- createLogger
  logConfig,       \* the logger argument of createLogger: its level and the levels it supplies a sink for
  logCall,         \* the last call on the created logger
  logGot,          \* what a sink received from that call
  \* ---- execCommand
  exec             \* per execCommand call: timeoutMs, the child, the timeout timer, the promise, and what the timer did

fwVars == <<watcher, debounce, pending, timer, timers, activeWatchers, closeP, disposeP,
            disposeWait, nextId, arrived, delivered, logged, escaped,
            lastFlush, afterClose, watchErrors>>
pmVars == <<child, exitCode, signalCode, managed, usesSignal, aborted, listeners,
            sent, waits, waitResult, preAborted, binds, abortTerms, removals,
            killCalls, disposedNow, disposeEnd>>
lpVars == <<lpTable, lpFilter, lpResult>>
meVars == <<mapCwd, mapped>>
rqVars == <<replies, modP, shutP>>
lgVars == <<logConfig, logCall, logGot>>
exVars == <<exec>>
vars == <<fwVars, pmVars, lpVars, meVars, rqVars, lgVars, exVars>>


\* ===================================================================
\* FileWatcher
\* ===================================================================

\* the paths a raw signal may carry
Paths == {"a", "b"}

\* a canonical event, FileSystemEvent, with its arrival number within the
\* subscription, which tells two events for the same path apart
Event(n, p) == [seq |-> n, path |-> p]

\* pending.splice(0, pending.length): the batch the for-loop of flush walks
SpliceDropSamePath(q) == SelectSeq(q, LAMBDA e : \A i \in 1..Len(q) : (q[i].path = e.path) => q[i].seq <= e.seq)
Splice(q) == q

\* pending.splice(0, pending.length): what it leaves in the queue
DrainedKeep(q) == q
Drained(q) == <<>>

\* the timer variable after flush(): untouched on the early return of an
\* empty queue, cleared otherwise
FlushTimerKeep(q, t) == t
FlushTimer(q, t) == IF Len(q) = 0 THEN t ELSE "unset"

\* queueEvent: "if (!timer)", the test that guards setTimeout
ArmsAlways(t) == TRUE
Arms(t) == t = "unset"

\* queueEvent: "if (!timer) timer = setTimeout(flush, debounceMs)"
ArmTimer(t) == IF Arms(t) THEN "armed" ELSE t

\* flush(): clearTimeout(timer) takes a timeout away when the queue was not
\* empty and the timer variable holds one that has not fired
ClearTimers(q, t, n) == IF Len(q) > 0 /\ t = "armed" THEN n - 1 ELSE n

\* flush(): of k handler invocations that throw, the number the try/catch
\* catches and logs
FlushLogged(k) == k

\* queueEvent with debounceMs <= 0: handler(event) is called bare, so a throw
\* leaves queueEvent and reaches the emit of the underlying watcher
DirectEscaped(k) == k

\* queueEvent: "if (debounceMs <= 0)", the handler is called at once
ImmediateNegative(d) == d < 0
Immediate(d) == d <= 0

\* the subscriptions whose close() promise has resolved
Resolved == {s \in Subs : closeP[s] = "resolved"}

RECURSIVE SumLen(_, _)
SumLen(f, S) == IF S = {} THEN 0 ELSE LET s == CHOOSE x \in S : TRUE IN Len(f[s]) + SumLen(f, S \ {s})

\* flush() of every subscription in S, called by `by`; k of the handler
\* invocations throw
flush(S, k, by) ==
  /\ k <= SumLen(pending, S)
  /\ lastFlush' = [s \in Subs |-> IF s \in S /\ Len(pending[s]) > 0 THEN [by |-> by, batch |-> Splice(pending[s])] ELSE lastFlush[s]]
  /\ delivered' = [s \in Subs |-> IF s \in S THEN delivered[s] \o Splice(pending[s]) ELSE delivered[s]]
  /\ pending' = [s \in Subs |-> IF s \in S THEN Drained(pending[s]) ELSE pending[s]]
  /\ logged' = logged + FlushLogged(k)
  /\ afterClose' = afterClose + SumLen([s \in Subs |-> Splice(pending[s])], S \cap Resolved)
  /\ UNCHANGED escaped

\* queueEvent(event) of subscription s; k = 1: the handler throws on it
queueEvent(s, ev, k) ==
  /\ arrived' = [arrived EXCEPT ![s] = Append(@, ev)]
  /\ IF Immediate(debounce[s])
       THEN /\ delivered' = [delivered EXCEPT ![s] = Append(@, ev)]
            /\ escaped' = escaped + DirectEscaped(k)
            /\ afterClose' = afterClose + (IF s \in Resolved THEN 1 ELSE 0)
            /\ UNCHANGED <<pending, timer, timers, logged, lastFlush>>
       ELSE /\ k = 0
            /\ pending' = [pending EXCEPT ![s] = Append(@, ev)]
            /\ timer' = [timer EXCEPT ![s] = ArmTimer(@)]
            /\ timers' = [timers EXCEPT ![s] = IF Arms(timer[s]) THEN @ + 1 ELSE @]
            /\ UNCHANGED <<delivered, escaped, logged, afterClose, lastFlush>>

FWInit ==
  /\ watcher = [s \in Subs |-> "none"]
  /\ debounce = [s \in Subs |-> DefaultDebounceMs]
  /\ pending = [s \in Subs |-> <<>>]
  /\ timer = [s \in Subs |-> "unset"]
  /\ timers = [s \in Subs |-> 0]
  /\ activeWatchers = {}
  /\ closeP = [s \in Subs |-> "none"]
  /\ disposeP = "none"
  /\ disposeWait = {}
  /\ nextId = 0
  /\ arrived = [s \in Subs |-> <<>>]
  /\ delivered = [s \in Subs |-> <<>>]
  /\ logged = 0
  /\ escaped = 0
  /\ afterClose = 0
  /\ watchErrors = 0
  /\ lastFlush = [s \in Subs |-> [by |-> "none", batch |-> <<>>]]

\* subscribe(handler, {debounceMs: d}); subscriptions are numbered in the
\* order of their creation
Subscribe(s, d) ==
  /\ watcher[s] = "none"
  /\ \A r \in Subs : r < s => watcher[r] # "none"
  /\ watcher' = [watcher EXCEPT ![s] = "open"]
  /\ debounce' = [debounce EXCEPT ![s] = d]
  /\ activeWatchers' = activeWatchers \cup {s}
  /\ UNCHANGED <<pending, timer, timers, closeP, disposeP, disposeWait, nextId, arrived,
                 delivered, logged, escaped, afterClose, lastFlush, watchErrors>>
  /\ UNCHANGED <<pmVars, lpVars, meVars, rqVars, lgVars, exVars>>

\* the watcher emits add/change/unlink/addDir/unlinkDir for path p
RawSignal(s, p, k) ==
  /\ watcher[s] = "open"
  /\ nextId < MaxEvents
  /\ queueEvent(s, Event(Len(arrived[s]) + 1, p), k)
  /\ nextId' = nextId + 1
  /\ UNCHANGED <<watcher, debounce, activeWatchers, closeP, disposeP, disposeWait,
                 watchErrors>>
  /\ UNCHANGED <<pmVars, lpVars, meVars, rqVars, lgVars, exVars>>

\* the same, emitted by a watcher whose close() was already called: the
\* listeners of subscribe are never removed by this code
LateSignal(s, p, k) ==
  /\ watcher[s] \in {"closing", "closed", "failed"}
  /\ nextId < MaxEvents
  /\ queueEvent(s, Event(Len(arrived[s]) + 1, p), k)
  /\ nextId' = nextId + 1
  /\ UNCHANGED <<watcher, debounce, activeWatchers, closeP, disposeP, disposeWait,
                 watchErrors>>
  /\ UNCHANGED <<pmVars, lpVars, meVars, rqVars, lgVars, exVars>>

\* the debounce timer of s fires and runs flush
TimerFire(s, k) ==
  /\ timer[s] = "armed"
  /\ flush({s}, k, "timer")
  /\ timer' = [timer EXCEPT ![s] = FlushTimer(pending[s], "stale")]
  /\ timers' = [timers EXCEPT ![s] = @ - 1]
  /\ UNCHANGED <<watcher, debounce, activeWatchers, closeP, disposeP, disposeWait,
                 nextId, arrived, watchErrors>>
  /\ UNCHANGED <<pmVars, lpVars, meVars, rqVars, lgVars, exVars>>

\* the debounce timer of s fires and runs flush, and during one of the
\* handler calls of its loop the watcher emits a signal for path p (the
\* handler made it do so): queueEvent runs inside flush, after the splice and
\* before the clearTimeout, and finds the timer variable still set
TimerFireReentrant(s, p) ==
  /\ timer[s] = "armed"
  /\ watcher[s] = "open"
  /\ nextId < MaxEvents
  /\ nextId' = nextId + 1
  /\ lastFlush' = [lastFlush EXCEPT ![s] = [by |-> "timer", batch |-> Splice(pending[s])]]
  /\ delivered' = [delivered EXCEPT ![s] = @ \o Splice(pending[s])]
  /\ arrived' = [arrived EXCEPT ![s] = Append(@, Event(Len(arrived[s]) + 1, p))]
  /\ pending' = [pending EXCEPT ![s] = Append(Drained(@), Event(Len(arrived[s]) + 1, p))]
  /\ timer' = [timer EXCEPT ![s] = FlushTimer(pending[s], ArmTimer("stale"))]
  /\ timers' = [timers EXCEPT ![s] = (IF Arms("stale") THEN @ + 1 ELSE @) - 1]
  /\ UNCHANGED <<watcher, debounce, activeWatchers, closeP, disposeP, disposeWait,
                 logged, escaped, afterClose, watchErrors>>
  /\ UNCHANGED <<pmVars, lpVars, meVars, rqVars, lgVars, exVars>>

\* the handle after watcher.close() was called on it
CloseHandle(w) == IF w = "open" THEN "closing" ELSE w

\* the promise of close() once the promise of watcher.close() has the state w
Awaited(w) == IF w = "closed" THEN "resolved" ELSE IF w = "failed" THEN "rejected" ELSE "pending"

\* subscription.close(): activeWatchers.delete, flush(), await watcher.close();
\* on a handle that has already settled the await resumes at once
Close(s, k) ==
  /\ watcher[s] # "none"
  /\ closeP[s] = "none"
  /\ activeWatchers' = activeWatchers \ {s}
  /\ flush({s}, k, "close")
  /\ timer' = [timer EXCEPT ![s] = FlushTimer(pending[s], @)]
  /\ timers' = [timers EXCEPT ![s] = ClearTimers(pending[s], timer[s], @)]
  /\ watcher' = [watcher EXCEPT ![s] = CloseHandle(@)]
  /\ closeP' = [closeP EXCEPT ![s] = Awaited(watcher[s])]
  /\ UNCHANGED <<debounce, disposeP, disposeWait, nextId, arrived, watchErrors>>
  /\ UNCHANGED <<pmVars, lpVars, meVars, rqVars, lgVars, exVars>>

\* the promise of watcher.close() settles, and a close() awaiting it resumes
WatcherClosed(s, ok) ==
  /\ watcher[s] = "closing"
  /\ watcher' = [watcher EXCEPT ![s] = IF ok THEN "closed" ELSE "failed"]
  /\ closeP' = [closeP EXCEPT ![s] = IF @ = "pending" THEN Awaited(watcher'[s]) ELSE @]
  /\ UNCHANGED <<debounce, pending, timer, timers, activeWatchers, disposeP,
                 disposeWait, nextId, arrived, delivered, logged, escaped,
                 afterClose, lastFlush, watchErrors>>
  /\ UNCHANGED <<pmVars, lpVars, meVars, rqVars, lgVars, exVars>>

\* FileWatcher.dispose() up to the await of Promise.allSettled
Dispose(k) ==
  /\ disposeP = "none"
  /\ flush(activeWatchers, k, "dispose")
  /\ timer' = [s \in Subs |-> IF s \in activeWatchers THEN FlushTimer(pending[s], timer[s]) ELSE timer[s]]
  /\ timers' = [s \in Subs |-> IF s \in activeWatchers THEN ClearTimers(pending[s], timer[s], timers[s]) ELSE timers[s]]
  /\ watcher' = [s \in Subs |-> IF s \in activeWatchers THEN CloseHandle(watcher[s]) ELSE watcher[s]]
  /\ disposeWait' = activeWatchers
  /\ disposeP' = "pending"
  /\ UNCHANGED <<debounce, activeWatchers, closeP, nextId, arrived, watchErrors>>
  /\ UNCHANGED <<pmVars, lpVars, meVars, rqVars, lgVars, exVars>>

\* Promise.allSettled over the promises of watcher.close() that have ended
\* in the states ws: it fulfils whatever they are
AllSettledAsAll(ws) == IF "failed" \in ws THEN "rejected" ELSE "resolved"
AllSettled(ws) == "resolved"

\* FileWatcher.dispose() resumes: activeWatchers.clear()
DisposeReturn ==
  /\ disposeP = "pending"
  /\ \A s \in disposeWait : watcher[s] \in {"closed", "failed"}
  /\ activeWatchers' = {}
  /\ disposeP' = AllSettled({watcher[s] : s \in disposeWait})
  /\ UNCHANGED <<watcher, debounce, pending, timer, timers, closeP, disposeWait, nextId,
                 arrived, delivered, logged, escaped, afterClose, lastFlush,
                 watchErrors>>
  /\ UNCHANGED <<pmVars, lpVars, meVars, rqVars, lgVars, exVars>>

\* the active set after the 'error' listener of subscription s has run: the
\* listener only logs
ErrorActiveDrop(A, s) == A \ {s}
ErrorActive(A, s) == A

\* the watcher of s emits 'error': logger.error('File watcher error')
WatcherError(s) ==
  /\ watcher[s] = "open"
  /\ nextId < MaxEvents
  /\ nextId' = nextId + 1
  /\ watchErrors' = watchErrors + 1
  /\ activeWatchers' = ErrorActive(activeWatchers, s)
  /\ UNCHANGED <<watcher, debounce, pending, timer, timers, closeP, disposeP, disposeWait,
                 arrived, delivered, logged, escaped, afterClose, lastFlush>>
  /\ UNCHANGED <<pmVars, lpVars, meVars, rqVars, lgVars, exVars>>

FWNext ==
  \/ \E s \in Subs, d \in DebounceValues : Subscribe(s, d)
  \/ \E s \in Subs, p \in Paths, k \in 0..1 : RawSignal(s, p, k)
  \/ \E s \in Subs, p \in Paths, k \in 0..1 : LateSignal(s, p, k)
  \/ \E s \in Subs, k \in 0..MaxEvents : TimerFire(s, k)
  \/ \E s \in Subs, k \in 0..MaxEvents : Close(s, k)
  \/ \E s \in Subs, ok \in BOOLEAN : WatcherClosed(s, ok)
  \/ \E k \in 0..MaxEvents : Dispose(k)
  \/ DisposeReturn
  \/ \E s \in Subs : WatcherError(s)

\* ===================================================================
\* ProcessManager
\* ===================================================================
Procs == 1..MaxProcs
Waiters == 1..MaxWaits

\* null of JavaScript
NULL == "null"

\* the exit codes of a child that exits by itself (written as strings, so
\* that they compare with null), the signals that can end it
ExitCodes == {"0", "1"}
Signals == {"SIGTERM", "SIGKILL"}

\* the errno a failed spawn leaves in child.exitCode (ENOENT)
SpawnErrno == "-2"

\* child.kill(sig): the signal is delivered only to a child that is running
KillSentAlways(st, was, sig) == was \cup {sig}
KillSent(st, was, sig) == IF st = "running" THEN was \cup {sig} ELSE was

\* abort() of launchProcess: child.kill('SIGTERM')
AbortSendsNothing(st, was) == was
AbortSends(st, was) == KillSent(st, was, "SIGTERM")

\* the child has left through 'exit'
Exited(st) == st \in {"exited", "killed"}

\* the exit listener of launchProcess: this.managed.delete(child)
ExitManagedAdd(m, p) == m \cup {p}
ExitManaged(m, p) == m \ {p}

\* the exit listener of launchProcess: abortSignal?.removeEventListener
ExitListenersKeep(L, p) == L
ExitListeners(L, p) == L \ {p}

\* wait(): the value built from the arguments of the 'exit' event
WaitValueCodeZero(code, signal) == [code |-> IF code = NULL THEN "0" ELSE code, signal |-> signal]
WaitValue(code, signal) == [code |-> code, signal |-> signal]

\* dispose(): this.managed.clear()
DisposeManagedKeep(m) == m
DisposeManaged(m) == {}

\* dispose(): the children it calls child.kill('SIGTERM') on
DisposeTargets(m) == {p \in m : exitCode[p] = NULL}

\* dispose(): the promise it returns when child.kill threw for the children
\* in F; the try/catch inside the loop logs each throw and goes on
DisposeOutcomeRethrow(F) == IF F = {} THEN "resolved" ELSE "rejected"
DisposeOutcome(F) == "resolved"

\* no dispose() has completed since the last launch
NotDisposed == [warned |-> {}, outcome |-> "none"]

\* an omitted signal argument, and the signal child.kill sends for it
NoSignal == "undefined"
SignalOrDefault(sig) == IF sig = NoSignal THEN "SIGTERM" ELSE sig

PMInit ==
  /\ child = [p \in Procs |-> "none"]
  /\ exitCode = [p \in Procs |-> NULL]
  /\ signalCode = [p \in Procs |-> NULL]
  /\ managed = {}
  /\ usesSignal = [p \in Procs |-> FALSE]
  /\ aborted = FALSE
  /\ listeners = {}
  /\ sent = [p \in Procs |-> {}]
  /\ waits = [p \in Procs |-> [w \in Waiters |-> "none"]]
  /\ waitResult = [p \in Procs |-> [w \in Waiters |-> NULL]]
  /\ preAborted = [p \in Procs |-> FALSE]
  /\ binds = [p \in Procs |-> 0]
  /\ abortTerms = [p \in Procs |-> 0]
  /\ removals = [p \in Procs |-> 0]
  /\ killCalls = 0
  /\ disposedNow = FALSE
  /\ disposeEnd = NotDisposed

\* launchProcess(options): withSignal - options.abortSignal is the shared
\* signal; ok - the spawn succeeds (otherwise the child emits 'error' later
\* and never 'exit'). Children are numbered in the order of their launch.
Launch(p, withSignal, ok) ==
  /\ child[p] = "none"
  /\ \A r \in Procs : r < p => child[r] # "none"
  /\ child' = [child EXCEPT ![p] = IF ok THEN "running" ELSE "spawnfail"]
  /\ usesSignal' = [usesSignal EXCEPT ![p] = withSignal]
  /\ preAborted' = [preAborted EXCEPT ![p] = withSignal /\ aborted]
  /\ IF withSignal /\ aborted
       THEN /\ sent' = [sent EXCEPT ![p] = AbortSends(child'[p], @)]
            /\ abortTerms' = [abortTerms EXCEPT ![p] = IF child'[p] = "running" THEN @ + 1 ELSE @]
            /\ UNCHANGED <<listeners, binds>>
       ELSE IF withSignal
         THEN /\ listeners' = listeners \cup {p}
              /\ binds' = [binds EXCEPT ![p] = @ + 1]
              /\ UNCHANGED <<sent, abortTerms>>
         ELSE UNCHANGED <<listeners, binds, sent, abortTerms>>
  /\ managed' = managed \cup {p}
  /\ disposedNow' = FALSE
  /\ disposeEnd' = NotDisposed
  /\ UNCHANGED <<exitCode, signalCode, aborted, waits, waitResult, removals, killCalls>>
  /\ UNCHANGED <<fwVars, lpVars, meVars, rqVars, lgVars, exVars>>

\* the shared signal aborts: every attached listener (once: true) runs
\* abort(), which is child.kill('SIGTERM'), and is detached
Abort ==
  /\ ~aborted
  /\ aborted' = TRUE
  /\ sent' = [p \in Procs |-> IF p \in listeners THEN AbortSends(child[p], sent[p]) ELSE sent[p]]
  /\ abortTerms' = [p \in Procs |-> IF p \in listeners /\ child[p] = "running" THEN abortTerms[p] + 1 ELSE abortTerms[p]]
  /\ listeners' = {}
  /\ UNCHANGED <<child, exitCode, signalCode, managed, usesSignal, waits, waitResult,
                 preAborted, binds, removals, killCalls, disposedNow, disposeEnd>>
  /\ UNCHANGED <<fwVars, lpVars, meVars, rqVars, lgVars, exVars>>

\* the promises of wait() that listen on child p, settled with `to` and v
SettleWaits(p, to, v) ==
  /\ waits' = [waits EXCEPT ![p] = [w \in Waiters |-> IF waits[p][w] = "listening" THEN to ELSE waits[p][w]]]
  /\ waitResult' = [waitResult EXCEPT ![p] = [w \in Waiters |-> IF waits[p][w] = "listening" THEN v ELSE waitResult[p][w]]]

\* the child ends, with an exit code or by a signal: Node sets exitCode or
\* signalCode and emits 'exit', which runs the exit listener of launchProcess
\* and the once(child, 'exit') of every wait() that listens
ChildExit(p, code, signal) ==
  /\ child[p] = "running"
  /\ (code = NULL) # (signal = NULL)
  /\ child' = [child EXCEPT ![p] = IF signal = NULL THEN "exited" ELSE "killed"]
  /\ exitCode' = [exitCode EXCEPT ![p] = code]
  /\ signalCode' = [signalCode EXCEPT ![p] = signal]
  /\ managed' = ExitManaged(managed, p)
  /\ removals' = [removals EXCEPT ![p] = IF p \in managed /\ p \notin managed' THEN @ + 1 ELSE @]
  /\ listeners' = ExitListeners(listeners, p)
  /\ SettleWaits(p, "resolved", WaitValue(code, signal))
  /\ UNCHANGED <<usesSignal, aborted, sent, preAborted, binds, abortTerms, killCalls,
                 disposedNow, disposeEnd>>
  /\ UNCHANGED <<fwVars, lpVars, meVars, rqVars, lgVars, exVars>>

\* the child of a failed spawn emits 'error' (and never 'exit'): every
\* once(child, 'exit') that listens rejects; the exit listener does not run
SpawnError(p) ==
  /\ child[p] = "spawnfail"
  /\ child' = [child EXCEPT ![p] = "errored"]
  /\ exitCode' = [exitCode EXCEPT ![p] = SpawnErrno]
  /\ SettleWaits(p, "rejected", NULL)
  /\ UNCHANGED <<signalCode, managed, usesSignal, aborted, listeners, sent, preAborted,
                 binds, abortTerms, removals, killCalls, disposedNow, disposeEnd>>
  /\ UNCHANGED <<fwVars, lpVars, meVars, rqVars, lgVars, exVars>>

\* handle.wait(): once(child, 'exit') starts to listen now
Wait(p, w) ==
  /\ child[p] # "none"
  /\ waits[p][w] = "none"
  /\ \A v \in Waiters : v < w => waits[p][v] # "none"
  /\ waits' = [waits EXCEPT ![p][w] = "listening"]
  /\ UNCHANGED <<child, exitCode, signalCode, managed, usesSignal, aborted, listeners,
                 sent, waitResult, preAborted, binds, abortTerms, removals, killCalls,
                 disposedNow, disposeEnd>>
  /\ UNCHANGED <<fwVars, lpVars, meVars, rqVars, lgVars, exVars>>

\* handle.kill(signal): child.kill(signal), which returns at once
Kill(p, sig) ==
  /\ child[p] # "none"
  /\ killCalls < MaxKillCalls
  /\ killCalls' = killCalls + 1
  /\ sent' = [sent EXCEPT ![p] = KillSent(child[p], @, SignalOrDefault(sig))]
  /\ UNCHANGED <<child, exitCode, signalCode, managed, usesSignal, aborted, listeners,
                 waits, waitResult, preAborted, binds, abortTerms, removals, disposedNow,
                 disposeEnd>>
  /\ UNCHANGED <<fwVars, lpVars, meVars, rqVars, lgVars, exVars>>

\* ProcessManager.dispose(); F - the children for which child.kill throws
PMDispose(F) ==
  /\ ~disposedNow
  /\ F \subseteq DisposeTargets(managed)
  /\ sent' = [p \in Procs |-> IF p \in DisposeTargets(managed) \ F
                                THEN KillSent(child[p], sent[p], "SIGTERM") ELSE sent[p]]
  /\ managed' = DisposeManaged(managed)
  /\ removals' = [p \in Procs |-> IF p \in managed /\ p \notin managed' THEN removals[p] + 1 ELSE removals[p]]
  /\ disposedNow' = TRUE
  /\ disposeEnd' = [warned |-> F, outcome |-> DisposeOutcome(F)]
  /\ UNCHANGED <<child, exitCode, signalCode, usesSignal, aborted, listeners, waits,
                 waitResult, preAborted, binds, abortTerms, killCalls>>
  /\ UNCHANGED <<fwVars, lpVars, meVars, rqVars, lgVars, exVars>>

PMNext ==
  \/ \E p \in Procs, withSignal \in BOOLEAN, ok \in BOOLEAN : Launch(p, withSignal, ok)
  \/ Abort
  \/ \E p \in Procs, code \in ExitCodes \cup {NULL}, signal \in Signals \cup {NULL} : ChildExit(p, code, signal)
  \/ \E p \in Procs : SpawnError(p)
  \/ \E p \in Procs, w \in Waiters : Wait(p, w)
  \/ \E p \in Procs, sig \in Signals \cup {NoSignal} : Kill(p, sig)
  \/ \E F \in SUBSET Procs : PMDispose(F)

\* ===================================================================
\* ProcessManager.listProcesses
\* ===================================================================

\* strings are sequences of characters; "A" is the upper case of "a"
Chars == {"a", "A", "b"}

\* an optional string that is undefined, an optional pid that is undefined
NoStr == <<"undefined">>
NoPid == -1

\* String.prototype.toLowerCase
LowerChar(c) == IF c = "A" THEN "a" ELSE c
ToLower(str) == [i \in 1..Len(str) |-> LowerChar(str[i])]

\* String.prototype.includes
Includes(hay, needle) ==
  \E i \in 0..(Len(hay) - Len(needle)) : SubSeq(hay, i + 1, i + Len(needle)) = needle

\* a value in the condition of an if: undefined, 0 and '' are falsy
TruthyPid(pid) == pid # NoPid /\ pid # 0
TruthyStr(str) == str # NoStr /\ str # <<>>

\* the descriptors psList() returns
Descriptors ==
  [pid : {0, 1}, name : {<<"A">>, <<"b">>}, cmd : {NoStr, <<"b", "A">>}, username : {NoStr, <<"a">>}]

\* the filters a caller passes; given = FALSE is a call without a filter
Filters ==
  [given : {TRUE}, pid : {NoPid, 0, 1}, nameIncludes : {NoStr, <<>>, <<"a">>, <<"B">>},
   user : {NoStr, <<>>, <<"a">>}, binaryPathIncludes : {NoStr, <<"a">>}]
NoFilter ==
  [given |-> FALSE, pid |-> NoPid, nameIncludes |-> NoStr, user |-> NoStr, binaryPathIncludes |-> NoStr]

\* the process tables of at most n descriptors
RECURSIVE TablesUpTo(_)
TablesUpTo(n) ==
  IF n = 0 THEN {<<>>}
  ELSE LET shorter == TablesUpTo(n - 1)
       IN shorter \cup {Append(tb, d) : tb \in {x \in shorter : Len(x) = n - 1}, d \in Descriptors}

\* processes.map(...): ProcessInfo of a descriptor
Normalize(proc) ==
  [pid |-> proc.pid, name |-> proc.name, cmd |-> proc.cmd, binaryPath |-> proc.cmd,
   user |-> proc.username]

\* `${proc.cmd ?? ''}`
CmdOrEmpty(cmd) == IF cmd = NoStr THEN <<>> ELSE cmd

\* the callback of normalized.filter
Keep(proc, filter) ==
  /\ ~(TruthyPid(filter.pid) /\ proc.pid # filter.pid)
  /\ ~(TruthyStr(filter.nameIncludes)
        /\ ~Includes(ToLower(proc.name), ToLower(filter.nameIncludes)))
  /\ ~(TruthyStr(filter.user) /\ proc.user # filter.user)
  /\ TruthyStr(filter.binaryPathIncludes) =>
       Includes(ToLower(CmdOrEmpty(proc.cmd)), ToLower(filter.binaryPathIncludes))

RECURSIVE MapNormalize(_)
MapNormalize(tb) == IF tb = <<>> THEN <<>> ELSE <<Normalize(Head(tb))>> \o MapNormalize(Tail(tb))

listProcesses(tb, filter) ==
  IF ~filter.given THEN MapNormalize(tb)
  ELSE SelectSeq(MapNormalize(tb), LAMBDA proc : Keep(proc, filter))

LPInit ==
  /\ lpTable = <<>>
  /\ lpFilter = NoFilter
  /\ lpResult = [called |-> FALSE, list |-> <<>>]

\* listProcesses(filter) on the table psList() returns
ListProcesses(filter) ==
  /\ ~lpResult.called
  /\ lpFilter' = filter
  /\ lpResult' = [called |-> TRUE, list |-> listProcesses(lpTable, filter)]
  /\ UNCHANGED lpTable
  /\ UNCHANGED <<fwVars, pmVars, meVars, rqVars, lgVars, exVars>>

\* ===================================================================
\* FileWatcher: mapEvent and the listeners of the raw signals
\* ===================================================================

\* a POSIX path: absolute or relative, and its segments
Path(abs, segs) == [abs |-> abs, segs |-> segs]

\* process.cwd()
ProcessCwd == Path(TRUE, <<"h">>)

\* the cwd option: omitted (process.cwd()), an absolute directory, or a
\* directory given relative to the working directory ('d' and '.')
Cwds == {ProcessCwd, Path(TRUE, <<"h", "d">>), Path(FALSE, <<"d">>), Path(FALSE, <<>>)}

\* the paths the watcher emits: relative to cwd, or absolute
RawPaths ==
  {Path(FALSE, <<"f">>), Path(FALSE, <<"d", "f">>), Path(FALSE, <<"..", "f">>),
   Path(TRUE, <<"h", "f">>), Path(TRUE, <<"h", "d", "f">>), Path(TRUE, <<"x">>)}

\* the raw signals and the listener table of subscribe
RawSignals == {"add", "change", "unlink", "addDir", "unlinkDir"}
EventType(sig) ==
  CASE sig = "add" -> "create"
    [] sig = "change" -> "change"
    [] sig = "unlink" -> "delete"
    [] sig = "addDir" -> "directory"
    [] sig = "unlinkDir" -> "directory"

\* path.normalize on the segments: '..' removes the segment before it, is
\* dropped at the root of an absolute path and kept in front of a relative one
RECURSIVE NormalizeSegs(_, _, _)
NormalizeSegs(done, rest, abs) ==
  IF rest = <<>> THEN done
  ELSE IF Head(rest) # ".." THEN NormalizeSegs(Append(done, Head(rest)), Tail(rest), abs)
  ELSE IF done # <<>> /\ done[Len(done)] # ".." THEN NormalizeSegs(SubSeq(done, 1, Len(done) - 1), Tail(rest), abs)
  ELSE IF abs THEN NormalizeSegs(done, Tail(rest), abs)
  ELSE NormalizeSegs(Append(done, ".."), Tail(rest), abs)

\* path.isAbsolute, path.join(a, b), path.resolve(p)
IsAbsolute(p) == p.abs
Join(a, b) == Path(a.abs, NormalizeSegs(<<>>, a.segs \o b.segs, a.abs))
Resolve(p) == IF p.abs THEN Path(TRUE, NormalizeSegs(<<>>, p.segs, TRUE)) ELSE Join(ProcessCwd, p)

\* the length of the common prefix of two segment sequences
RECURSIVE CommonLen(_, _)
CommonLen(a, b) ==
  IF a = <<>> \/ b = <<>> \/ Head(a) # Head(b) THEN 0 ELSE 1 + CommonLen(Tail(a), Tail(b))

\* path.relative(from, to): both are resolved, then one '..' for every
\* segment of from beyond the common prefix, then the rest of to
Relative(from, to) ==
  LET f == Resolve(from).segs
      t == Resolve(to).segs
      c == CommonLen(f, t)
  IN Path(FALSE, [i \in 1..(Len(f) - c) |-> ".."] \o SubSeq(t, c + 1, Len(t)))

\* mapEvent(type, filePath) of a subscription with the option cwd
mapEvent(type, filePath, cwd) ==
  LET absolutePath == IF IsAbsolute(filePath) THEN filePath ELSE Join(cwd, filePath)
  IN [type |-> type, path |-> absolutePath, relativePath |-> Relative(cwd, absolutePath)]

\* no signal was mapped yet
NotMapped ==
  [done |-> FALSE, signal |-> "none", raw |-> Path(FALSE, <<>>),
   event |-> [type |-> "none", path |-> Path(FALSE, <<>>), relativePath |-> Path(FALSE, <<>>)]]

MEInit ==
  /\ mapCwd = ProcessCwd
  /\ mapped = NotMapped

\* the watcher emits sig for the path raw: the listener of sig calls mapEvent
\* once and hands the event to queueEvent
MapSignal(sig, raw) ==
  /\ mapped' = [done |-> TRUE, signal |-> sig, raw |-> raw,
                event |-> mapEvent(EventType(sig), raw, mapCwd)]
  /\ UNCHANGED mapCwd
  /\ UNCHANGED <<fwVars, pmVars, lpVars, rqVars, lgVars, exVars>>

\* ===================================================================
\* Explicit requests of the ProcessManager, SystemBridge.shutdown
\* ===================================================================

\* the pids a caller names; child p of the manager has the pid p
ReqPids == {1, 2}

\* the commands a caller launches
Commands == {"ls", "nop"}
NoCommand == "undefined"

\* what the sampler returns, the errors a collaborator raises
Stats == {"stat1", "stat2"}
NoStat == "undefined"
Causes == {"ESRCH", "EPERM"}
NoCause == "undefined"

\* new SystemBridgeError(message, code, cause); the message is a text with
\* the pid or the command that is put into it
Message(text, pid, command) == [text |-> text, pid |-> pid, command |-> command]
SystemBridgeError(message, code, cause) ==
  [name |-> "SystemBridgeError", message |-> message, code |-> code, cause |-> cause]

\* an error a collaborator raised, as it is: no code of the taxonomy, no
\* identifier of the request, no cause
RawError(e) ==
  [name |-> "Error", message |-> Message(e, NoPid, NoCommand), code |-> e, cause |-> NoCause]
NoError ==
  [name |-> "none", message |-> Message("", NoPid, NoCommand), code |-> "none", cause |-> NoCause]

\* what a collaborator did: returned (with a stat, for the sampler) or raised
Returned(stat) == [ok |-> TRUE, stat |-> stat, cause |-> NoCause]
Raised(cause) == [ok |-> FALSE, stat |-> NoStat, cause |-> cause]
Outcomes == {Returned(NoStat)} \cup {Raised(e) : e \in Causes}
SamplerOutcomes == {Returned(st) : st \in Stats} \cup {Raised(e) : e \in Causes}

\* what the caller got: kind is "resolved" | "rejected" | "threw" | "emitted"
NoValue == [stat |-> NoStat, success |-> FALSE, signal |-> NoSignal]
Reply(op, pid, command, signal, did, kind, value, error) ==
  [op |-> op, pid |-> pid, command |-> command, signal |-> signal, did |-> did,
   kind |-> kind, value |-> value, error |-> error]

\* getResourceUsage(pid): the sampler's result, or the catch block
getResourceUsageStale(pid, did) ==
  Reply("getResourceUsage", pid, NoCommand, NoSignal, did, "resolved",
        [stat |-> did.stat, success |-> FALSE, signal |-> NoSignal], NoError)
getResourceUsage(pid, did) ==
  IF did.ok
    THEN Reply("getResourceUsage", pid, NoCommand, NoSignal, did, "resolved",
               [stat |-> did.stat, success |-> FALSE, signal |-> NoSignal], NoError)
    ELSE Reply("getResourceUsage", pid, NoCommand, NoSignal, did, "rejected", NoValue,
               SystemBridgeError(Message("Unable to get usage for pid", pid, NoCommand),
                                 "OPERATION_FAILED", did.cause))

\* killProcess(pid, signal = 'SIGTERM'): process.kill returns true or throws
killProcess(pid, sig, did) ==
  IF did.ok
    THEN Reply("killProcess", pid, NoCommand, sig, did, "resolved",
               [stat |-> NoStat, success |-> TRUE, signal |-> SignalOrDefault(sig)], NoError)
    ELSE Reply("killProcess", pid, NoCommand, sig, did, "rejected", NoValue,
               SystemBridgeError(Message("Unable to kill pid", pid, NoCommand),
                                 "OPERATION_FAILED", did.cause))

\* killProcess: the managed set after it; the function does not use it
KillProcessManagedDrop(m, pid) == m \ {pid}
KillProcessManaged(m, pid) == m

\* the modules of the facade, in the order shutdown() calls their dispose();
\* the first two dispose() are async functions, the other three plain ones
\* whose bodies are one assignment or empty
Modules == {"fileWatcher", "processManager", "notifier", "clipboard", "systemInfo"}
AsyncModules == {"fileWatcher", "processManager"}

\* shutdown(): Promise.allSettled over the five results, in the states ps
ShutdownSettledAsAll(ps) == IF "rejected" \in ps THEN "rejected" ELSE "resolved"
ShutdownSettled(ps) == "resolved"

RQInit ==
  /\ replies = <<>>
  /\ modP = [m \in Modules |-> "none"]
  /\ shutP = "none"

\* getResourceUsage(pid), the sampler doing `did`
GetResourceUsage(pid, did) ==
  /\ Len(replies) < MaxRequests
  /\ replies' = Append(replies, getResourceUsage(pid, did))
  /\ UNCHANGED <<modP, shutP>>
  /\ UNCHANGED <<fwVars, pmVars, lpVars, meVars, lgVars, exVars>>

\* killProcess(pid, sig), process.kill doing `did`; a signal that was
\* delivered to the pid of a running child of the manager is sent to it
KillProcess(pid, sig, did) ==
  /\ Len(replies) < MaxRequests
  /\ replies' = Append(replies, killProcess(pid, sig, did))
  /\ managed' = KillProcessManaged(managed, pid)
  /\ sent' = [p \in Procs |-> IF p = pid /\ did.ok THEN KillSent(child[p], sent[p], SignalOrDefault(sig)) ELSE sent[p]]
  /\ UNCHANGED <<child, exitCode, signalCode, usesSignal, aborted, listeners, waits,
                 waitResult, preAborted, binds, abortTerms, removals, killCalls,
                 disposedNow, disposeEnd>>
  /\ UNCHANGED <<modP, shutP>>
  /\ UNCHANGED <<fwVars, lpVars, meVars, lgVars, exVars>>

\* listProcesses(filter) when psList() rejects: the await is in no try block
ListProcessesFails(e) ==
  /\ Len(replies) < MaxRequests
  /\ replies' = Append(replies, Reply("listProcesses", NoPid, NoCommand, NoSignal, Raised(e),
                                      "rejected", NoValue, RawError(e)))
  /\ UNCHANGED <<modP, shutP>>
  /\ UNCHANGED <<fwVars, pmVars, lpVars, meVars, lgVars, exVars>>

\* launchProcess({command}) when the spawn fails: spawn() throws, and the
\* error leaves launchProcess as it is (sync), or spawn() returns a child
\* that emits 'error' later, which launchProcess neither listens to nor wraps
LaunchFails(command, e, sync) ==
  /\ Len(replies) < MaxRequests
  /\ replies' = Append(replies, Reply("launchProcess", NoPid, command, NoSignal, Raised(e),
                                      IF sync THEN "threw" ELSE "emitted", NoValue, RawError(e)))
  /\ UNCHANGED <<modP, shutP>>
  /\ UNCHANGED <<fwVars, pmVars, lpVars, meVars, lgVars, exVars>>

\* shutdown() up to the await: the five dispose() calls, in order
Shutdown ==
  /\ shutP = "none"
  /\ modP' = [m \in Modules |-> IF m \in AsyncModules THEN "pending" ELSE "returned"]
  /\ shutP' = "pending"
  /\ UNCHANGED replies
  /\ UNCHANGED <<fwVars, pmVars, lpVars, meVars, lgVars, exVars>>

\* the promise of an async dispose() settles
DisposeSettles(m, ok) ==
  /\ modP[m] = "pending"
  /\ modP' = [modP EXCEPT ![m] = IF ok THEN "fulfilled" ELSE "rejected"]
  /\ UNCHANGED <<replies, shutP>>
  /\ UNCHANGED <<fwVars, pmVars, lpVars, meVars, lgVars, exVars>>

\* shutdown() resumes after Promise.allSettled
ShutdownReturn ==
  /\ shutP = "pending"
  /\ \A m \in Modules : modP[m] # "pending"
  /\ shutP' = ShutdownSettled({modP[m] : m \in Modules})
  /\ UNCHANGED <<replies, modP>>
  /\ UNCHANGED <<fwVars, pmVars, lpVars, meVars, lgVars, exVars>>

RQNext ==
  \/ \E pid \in ReqPids, did \in SamplerOutcomes : GetResourceUsage(pid, did)
  \/ \E pid \in ReqPids, sig \in Signals \cup {NoSignal}, did \in Outcomes : KillProcess(pid, sig, did)
  \/ \E e \in Causes : ListProcessesFails(e)
  \/ \E command \in Commands, e \in Causes, sync \in BOOLEAN : LaunchFails(command, e, sync)
  \/ Shutdown
  \/ \E m \in Modules, ok \in BOOLEAN : DisposeSettles(m, ok)
  \/ ShutdownReturn

\* ===================================================================
\* createLogger
\* ===================================================================

\* LogLevel, and a level that is undefined
Levels == {"trace", "debug", "info", "warn", "error"}
NoLevel == "undefined"

\* logPriority
logPriority(l) ==
  CASE l = "trace" -> 10
    [] l = "debug" -> 20
    [] l = "info" -> 30
    [] l = "warn" -> 40
    [] l = "error" -> 50

\* the logger argument: a level or none, and the levels whose method it
\* supplies; createLogger() without an argument has neither
LogConfig(level, sinks) == [level |-> level, sinks |-> sinks]
NoLogger == LogConfig(NoLevel, {})
LogConfigs ==
  {LogConfig(level, sinks) :
     level \in Levels \cup {NoLevel},
     sinks \in {{}, {"debug"}, {"warn", "error"}, Levels}}

\* the messages and the meta of a call; a call may have no meta
LogMessages == {"x", "y"}
NoMeta == "undefined"
LogMetas == {NoMeta, "m"}

\* finalLogger.level ?? 'info', over {...defaultLogger, ...logger}
FinalLevel(cfg) == IF cfg.level = NoLevel THEN "info" ELSE cfg.level

\* finalLogger[levelKey]: the supplied method, or that of defaultLogger
FinalSink(cfg, levelKey) == IF levelKey \in cfg.sinks THEN "supplied" ELSE "default"

\* wrap: "if (priority < minPriority) return"
ForwardsAbove(levelKey, level) == logPriority(levelKey) > logPriority(level)
Forwards(levelKey, level) == ~(logPriority(levelKey) < logPriority(level))

\* nothing reached a sink
NotForwarded == [to |-> "none", level |-> NoLevel, message |-> "", meta |-> NoMeta]

\* the method levelKey of createLogger(cfg), called with message and meta
log(cfg, levelKey, message, meta) ==
  IF Forwards(levelKey, FinalLevel(cfg))
    THEN [to |-> FinalSink(cfg, levelKey), level |-> levelKey, message |-> message, meta |-> meta]
    ELSE NotForwarded

NoLogCall == [level |-> NoLevel, message |-> "", meta |-> NoMeta]

LGInit ==
  /\ logConfig = NoLogger
  /\ logCall = NoLogCall
  /\ logGot = NotForwarded

\* logger[levelKey](message, meta)
Log(levelKey, message, meta) ==
  /\ logCall' = [level |-> levelKey, message |-> message, meta |-> meta]
  /\ logGot' = log(logConfig, levelKey, message, meta)
  /\ UNCHANGED logConfig
  /\ UNCHANGED <<fwVars, pmVars, lpVars, meVars, rqVars, exVars>>

\* ===================================================================
\* execCommand
\* ===================================================================
Execs == 1..MaxExecs

\* the timeoutMs a caller passes: negative, 0 (the default), positive
ExecTimeouts == {-1, 0, 5}

\* one call of execCommand:
\*   child    "none" | "running" | "spawnfail" | "errored" | "exited"
\*   timer    "none" | "pending" | "fired" | "cleared"
\*   promise  "none" | "pending" | "resolved" | "rejected"
\*   firedOn  the state of the child when the timer fired, "none" before
\*   termSent the timer's child.kill('SIGTERM') reached a live child
NoExec ==
  [timeoutMs |-> 0, child |-> "none", timer |-> "none", promise |-> "none",
   firedOn |-> "none", termSent |-> FALSE]

\* "if (timeoutMs > 0) timeout = setTimeout(...)"
ExecTimer(timeoutMs) == IF timeoutMs > 0 THEN "pending" ELSE "none"

\* "finally { if (timeout) clearTimeout(timeout) }"
ExecFinallyKeep(t) == t
ExecFinally(t) == IF t = "pending" THEN "cleared" ELSE t

EXInit == exec = [e \in Execs |-> NoExec]

\* execCommand(command, args, {timeoutMs}) up to its await; ok - the spawn
\* succeeds. The calls are numbered in their order.
ExecCommand(e, timeoutMs, ok) ==
  /\ exec[e].child = "none"
  /\ \A f \in Execs : f < e => exec[f].child # "none"
  /\ exec' = [exec EXCEPT ![e] = [timeoutMs |-> timeoutMs,
                                   child |-> IF ok THEN "running" ELSE "spawnfail",
                                   timer |-> ExecTimer(timeoutMs),
                                   promise |-> "pending",
                                   firedOn |-> "none",
                                   termSent |-> FALSE]]
  /\ UNCHANGED <<fwVars, pmVars, lpVars, meVars, rqVars, lgVars>>

\* the timeout timer fires: child.kill('SIGTERM'). A failed spawn emits its
\* 'error' on the next tick, before any timer, so the child runs here.
ExecTimeout(e) ==
  /\ exec[e].timer = "pending"
  /\ exec[e].child = "running"
  /\ exec' = [exec EXCEPT ![e].timer = "fired",
                          ![e].firedOn = exec[e].child,
                          ![e].termSent = (exec[e].child = "running")]
  /\ UNCHANGED <<fwVars, pmVars, lpVars, meVars, rqVars, lgVars>>

\* the child emits 'exit': once(child, 'exit') resolves, execCommand returns
\* through finally; an execCommand that has rejected already is not touched
ExecChildExit(e) ==
  /\ exec[e].child = "running"
  /\ exec' = [exec EXCEPT ![e].child = "exited",
                          ![e].promise = IF @ = "pending" THEN "resolved" ELSE @,
                          ![e].timer = IF exec[e].promise = "pending" THEN ExecFinally(@) ELSE @]
  /\ UNCHANGED <<fwVars, pmVars, lpVars, meVars, rqVars, lgVars>>

\* the child emits 'error' (a failed spawn, or the abort of options.abortSignal
\* on a running child): once(child, 'exit') rejects, execCommand throws
\* through finally
ExecChildError(e) ==
  /\ exec[e].child \in {"spawnfail", "running"}
  /\ exec[e].promise = "pending"
  /\ exec' = [exec EXCEPT ![e].child = IF @ = "spawnfail" THEN "errored" ELSE @,
                          ![e].promise = "rejected",
                          ![e].timer = ExecFinally(@)]
  /\ UNCHANGED <<fwVars, pmVars, lpVars, meVars, rqVars, lgVars>>

EXNext ==
  \/ \E e \in Execs, timeoutMs \in ExecTimeouts, ok \in BOOLEAN : ExecCommand(e, timeoutMs, ok)
  \/ \E e \in Execs : ExecTimeout(e)
  \/ \E e \in Execs : ExecChildExit(e)
  \/ \E e \in Execs : ExecChildError(e)

\* ===================================================================
\* Specifications
\* ===================================================================
Init == FWInit /\ PMInit /\ LPInit /\ MEInit /\ RQInit /\ LGInit /\ EXInit
Next == FWNext
Spec == Init /\ [][Next]_vars

\* the FileWatcher with a watcher that may emit inside a handler call
ReentryNext ==
  \/ FWNext
  \/ \E s \in Subs, p \in Paths : TimerFireReentrant(s, p)
ReentrySpec == Init /\ [][ReentryNext]_vars

ProcNext == PMNext
ProcSpec == Init /\ [][ProcNext]_vars

ListInit ==
  /\ FWInit
  /\ PMInit
  /\ MEInit
  /\ RQInit
  /\ LGInit
  /\ EXInit
  /\ lpTable \in TablesUpTo(MaxTable)
  /\ lpFilter = NoFilter
  /\ lpResult = [called |-> FALSE, list |-> <<>>]
ListNext == \E filter \in Filters \cup {NoFilter} : ListProcesses(filter)
ListSpec == ListInit /\ [][ListNext]_vars

MapInit ==
  /\ FWInit
  /\ PMInit
  /\ LPInit
  /\ RQInit
  /\ LGInit
  /\ EXInit
  /\ mapCwd \in Cwds
  /\ mapped = NotMapped
MapNext == \E sig \in RawSignals, raw \in RawPaths : MapSignal(sig, raw)
MapSpec == MapInit /\ [][MapNext]_vars

\* the requests are made on a manager without children or with one running
\* child, launched without an abort signal, whose pid is 1
ReqInit ==
  /\ FWInit
  /\ LPInit
  /\ MEInit
  /\ RQInit
  /\ LGInit
  /\ EXInit
  /\ child \in {[p \in Procs |-> "none"], [p \in Procs |-> IF p = 1 THEN "running" ELSE "none"]}
  /\ managed = {p \in Procs : child[p] = "running"}
  /\ exitCode = [p \in Procs |-> NULL]
  /\ signalCode = [p \in Procs |-> NULL]
  /\ usesSignal = [p \in Procs |-> FALSE]
  /\ aborted = FALSE
  /\ listeners = {}
  /\ sent = [p \in Procs |-> {}]
  /\ waits = [p \in Procs |-> [w \in Waiters |-> "none"]]
  /\ waitResult = [p \in Procs |-> [w \in Waiters |-> NULL]]
  /\ preAborted = [p \in Procs |-> FALSE]
  /\ binds = [p \in Procs |-> 0]
  /\ abortTerms = [p \in Procs |-> 0]
  /\ removals = [p \in Procs |-> 0]
  /\ killCalls = 0
  /\ disposedNow = FALSE
  /\ disposeEnd = NotDisposed
ReqNext == RQNext
ReqSpec == ReqInit /\ [][ReqNext]_vars

ExecNext == EXNext
ExecSpec == Init /\ [][ExecNext]_vars

LogInit ==
  /\ FWInit
  /\ PMInit
  /\ LPInit
  /\ MEInit
  /\ RQInit
  /\ EXInit
  /\ logConfig \in LogConfigs
  /\ logCall = NoLogCall
  /\ logGot = NotForwarded
LogNext == \E levelKey \in Levels, message \in LogMessages, meta \in LogMetas : Log(levelKey, message, meta)
LogSpec == LogInit /\ [][LogNext]_vars

\* ===================================================================
\* Claims about the FileWatcher (specification Spec)
\* ===================================================================

\* C1: for a subscription with debounceMs > 0, the step in which the debounce
\* timer fires hands every event that is in the pending queue to the handler,
\* in arrival order, in that one flush, and leaves the queue empty; after it
\* the handler has seen exactly the events that arrived, each once, two events
\* for the same path included.
C1_TimerFlushDeliversAll ==
  [][\A s \in Subs :
       (debounce[s] > 0 /\ \E k \in 0..MaxEvents : TimerFire(s, k)) =>
         /\ delivered'[s] = delivered[s] \o pending[s]
         /\ lastFlush'[s].batch = pending[s]
         /\ pending'[s] = <<>>
         /\ delivered'[s] = arrived[s]]_vars

\* C1 witness: a timer flush has delivered two events for the same path.
C1_Witness ==
  \E s \in Subs :
    /\ debounce[s] > 0
    /\ lastFlush[s].by = "timer"
    /\ Len(lastFlush[s].batch) = 2
    /\ lastFlush[s].batch[1].path = lastFlush[s].batch[2].path
    /\ delivered[s] = lastFlush[s].batch

\* C2: once the promise of close() has resolved, the handler of that
\* subscription is not invoked again and its pending queue is empty, whatever
\* the underlying watcher emits afterwards.
C2_SilentAfterClose ==
  /\ afterClose = 0
  /\ \A s \in Subs : closeP[s] = "resolved" => pending[s] = <<>>

\* C3: the call of close() hands all N pending events to the handler in
\* arrival order before its promise can settle, leaves no armed timer, has
\* called close() on the watch handle and has left the active set; the
\* promise of close() is rejected only when that of the handle's close() is.
C3_CloseFlushesAndReleases ==
  [][\A s \in Subs :
       (closeP[s] = "none" /\ closeP'[s] # "none") =>
         /\ delivered'[s] = delivered[s] \o pending[s]
         /\ pending'[s] = <<>>
         /\ timer'[s] # "armed"
         /\ watcher'[s] \in {"closing", "closed", "failed"}
         /\ s \notin activeWatchers'
         /\ closeP'[s] = "rejected" => watcher'[s] = "failed"]_vars

\* C3 witness: close() found two queued events, delivered them, and resolved.
C3_Witness ==
  \E s \in Subs :
    /\ lastFlush[s].by = "close"
    /\ Len(lastFlush[s].batch) = 2
    /\ delivered[s] = lastFlush[s].batch
    /\ closeP[s] = "resolved"
    /\ timer[s] = "unset"

\* C4: for every debounceMs >= 0 an exception thrown by the handler is caught
\* and logged and never reaches the underlying watcher's event emission.
C4_HandlerErrorsContained == escaped = 0

C13_ZeroDebounceSynchronous ==
  \A s \in Subs :
    (watcher[s] # "none" /\ debounce[s] = 0) =>
      /\ pending[s] = <<>>
      /\ timer[s] = "unset"
      /\ delivered[s] = arrived[s]
      /\ lastFlush[s].by = "none"

\* C13 witness: two events have arrived at a subscription with debounceMs 0
\* and both were delivered, in order.
C13_Witness ==
  \E s \in Subs :
    /\ debounce[s] = 0
    /\ Len(arrived[s]) = 2
    /\ delivered[s] = arrived[s]
    /\ delivered[s][1].seq < delivered[s][2].seq

\* C17: the step in which a watcher emits 'error' logs it and changes nothing
\* else: the pending queues, the timers, the active set, the watch handles and
\* the handler's history stay as they were, nothing is thrown to the emitter,
\* and the subscription takes the signals that follow as before.
C17_ErrorSignalFrame ==
  [][\A s \in Subs :
       WatcherError(s) =>
         /\ watchErrors' = watchErrors + 1
         /\ pending' = pending /\ timer' = timer
         /\ activeWatchers' = activeWatchers
         /\ watcher' = watcher /\ closeP' = closeP
         /\ delivered' = delivered /\ escaped' = escaped
         /\ (nextId' < MaxEvents => (ENABLED RawSignal(s, "a", 0))')]_vars

\* C17 witness: an 'error' was logged at a subscription that holds a queued
\* event behind an armed timer and is still active.
C17_Witness ==
  \E s \in Subs :
    /\ watchErrors = 1
    /\ nextId = 2
    /\ Len(pending[s]) = 1
    /\ timer[s] = "armed"
    /\ s \in activeWatchers

\* C22: a subscription never has more than one timeout outstanding; a step
\* sets one only when an event arrives at an empty queue; an event that
\* arrives while the timer is armed leaves the timer and the outstanding
\* timeout as they are; and a flush that delivered events leaves the timer
\* variable unset and no timeout outstanding.
C22_SingleTimer ==
  [][\A s \in Subs :
       /\ timers'[s] <= 1
       /\ timers'[s] > timers[s] => pending[s] = <<>> /\ Len(pending'[s]) = 1
       /\ (timer[s] = "armed" /\ Len(arrived'[s]) > Len(arrived[s])) =>
            timer'[s] = "armed" /\ timers'[s] = timers[s]
       /\ (debounce[s] > 0 /\ delivered'[s] # delivered[s]) =>
            timer'[s] = "unset" /\ timers'[s] = 0]_vars

\* C22 witness: two events are queued behind one armed timer, the second
\* having arrived while it was armed.
C22_Witness ==
  \E s \in Subs :
    /\ Len(pending[s]) = 2
    /\ timer[s] = "armed"
    /\ timers[s] = 1

\* C26: a subscription whose watch handle is open, no close of it having
\* been requested, is in the active set; so every subscription that dispose()
\* drops from the set, one created while dispose() awaits included, has had
\* its handle closed.
C26_DisposeClosesAll ==
  \A s \in Subs : watcher[s] = "open" => s \in activeWatchers

\* C28: whatever the interleaving of raw signals, timer firings, close() and
\* dispose(), the events the handler has got followed by the events still
\* queued are the events that arrived, in arrival order: none is delivered
\* twice, by two flushes or by one, none is lost, none overtakes another.
C28_AtMostOnceInOrder ==
  \A s \in Subs :
    /\ delivered[s] \o pending[s] = arrived[s]
    /\ \A i, j \in 1..Len(delivered[s]) : i < j => delivered[s][i].seq < delivered[s][j].seq

\* C28 witness: of two events of one subscription the first was delivered by
\* a timer flush and the second, alone in its batch, by the flush of a
\* close() or a dispose().
C28_Witness ==
  \E s \in Subs :
    /\ debounce[s] > 0
    /\ Len(delivered[s]) = 2
    /\ lastFlush[s].by \in {"close", "dispose"}
    /\ lastFlush[s].batch = <<delivered[s][2]>>
    /\ timer[s] = "unset"

\* C29: for a subscription with debounceMs > 0 the timer is armed exactly
\* when the pending queue is not empty, also after a flush during which the
\* handler caused a new event to be queued (specification ReentrySpec).
C29_ArmedIffQueued ==
  \A s \in Subs :
    debounce[s] > 0 => (timer[s] = "armed" <=> pending[s] # <<>>)

\* ===================================================================
\* Claims about the ProcessManager (specification ProcSpec)
\* ===================================================================

\* the children launchProcess has spawned
Launched == {p \in Procs : child[p] # "none"}

\* C5: a child launched with an already aborted signal was sent SIGTERM by
\* launchProcess, and no wait() on its handle is left listening once the
\* child has exited (a wait() that listens after the exit never resolves).
C5_PreAbortedTermAndWait ==
  \A p \in Procs :
    (preAborted[p] /\ child[p] \in {"running", "exited", "killed"}) =>
      /\ "SIGTERM" \in sent[p]
      /\ Exited(child[p]) => \A w \in Waiters : waits[p][w] # "listening"

\* C6: every child added to the managed set leaves it exactly once: it is in
\* the set and was never removed, or out of it and was removed once; a child
\* that has exited is out of it; the set is empty when dispose() completes.
C6_ManagedSymmetric ==
  /\ managed \subseteq Launched
  /\ \A p \in Procs \ Launched : removals[p] = 0
  /\ \A p \in Launched : removals[p] = IF p \in managed THEN 0 ELSE 1
  /\ \A p \in Procs : Exited(child[p]) => p \notin managed
  /\ disposedNow => managed = {}

\* C6 witness: dispose() removed a running child (the SIGTERM is its own),
\* and the exit that followed found nothing left to remove.
C6_Witness ==
  \E p \in Procs :
    /\ disposedNow
    /\ Exited(child[p])
    /\ "SIGTERM" \in sent[p]
    /\ ~aborted
    /\ killCalls = 0
    /\ removals[p] = 1

Forward(a, b) ==
  \/ a = b
  \/ a = "none" /\ b \in {"running", "spawnfail"}
  \/ a = "running" /\ b \in {"exited", "killed"}
  \/ a = "spawnfail" /\ b = "errored"

\* C8: a child only moves forward, none -> running -> exited | killed, never
\* leaves exited or killed, and once removed from the managed set is not in
\* it after any later step.
C8_ForwardOnly ==
  [][\A p \in Procs :
       /\ Forward(child[p], child'[p])
       /\ Exited(child[p]) => child'[p] = child[p]
       /\ removals[p] > 0 => p \notin managed']_vars

\* C8 witness: a child has been killed by a signal and removed, and kill(),
\* the abort of the signal, dispose() and a wait() that still listens have
\* all been applied.
C8_Witness ==
  \E p \in Procs :
    /\ child[p] = "killed"
    /\ removals[p] = 1
    /\ p \notin managed
    /\ aborted
    /\ disposedNow
    /\ killCalls > 0
    /\ \E w \in Waiters : waits[p][w] = "listening"

\* C10: a wait() that has resolved did so on a child that has exited, with
\* the code and signal of that exit, of which exactly one is null: code null
\* for a child ended by a signal, signal null for one that exited by itself.
C10_WaitValue ==
  \A p \in Procs, w \in Waiters :
    waits[p][w] = "resolved" =>
      /\ Exited(child[p])
      /\ waitResult[p][w] = [code |-> exitCode[p], signal |-> signalCode[p]]
      /\ (waitResult[p][w].code = NULL) # (waitResult[p][w].signal = NULL)
      /\ child[p] = "killed" => waitResult[p][w].code = NULL /\ waitResult[p][w].signal # NULL
      /\ child[p] = "exited" => waitResult[p][w].code # NULL /\ waitResult[p][w].signal = NULL

\* C10 witness: a wait() resolved on a child that a signal ended.
C10_Witness ==
  \E p \in Procs, w \in Waiters :
    /\ waits[p][w] = "resolved"
    /\ child[p] = "killed"
    /\ waitResult[p][w].signal = "SIGTERM"

\* C23: the step in which the signal aborts sends SIGTERM to every running
\* child that was launched with the signal before it was aborted, which is
\* then the one SIGTERM cancellation has sent to it; it sends nothing to a
\* child that is not running (it has exited), and it settles no wait() and
\* ends no child: only the exit of the process resolves wait().
C23_AbortSendsOneTerm ==
  [][(aborted' /\ ~aborted) =>
       /\ \A p \in Procs :
            /\ (usesSignal[p] /\ ~preAborted[p] /\ child[p] = "running") =>
                 "SIGTERM" \in sent'[p] /\ abortTerms'[p] = 1
            /\ child[p] # "running" =>
                 sent'[p] = sent[p] /\ abortTerms'[p] = abortTerms[p]
            /\ abortTerms'[p] <= 1
       /\ waits' = waits /\ waitResult' = waitResult
       /\ child' = child /\ exitCode' = exitCode]_vars

\* C23 witness: the signal was aborted while a child launched with it was
\* running; cancellation sent it one SIGTERM, the child still runs and the
\* wait() on it still listens.
C23_Witness ==
  \E p \in Procs, w \in Waiters :
    /\ aborted
    /\ usesSignal[p] /\ ~preAborted[p]
    /\ abortTerms[p] = 1
    /\ sent[p] = {"SIGTERM"}
    /\ child[p] = "running"
    /\ waits[p][w] = "listening"

\* C25: no wait() is left listening on a child that has exited, whether it
\* was called before or after the exit, and every wait() that has resolved
\* did so with the code and signal of the exit.
C25_EveryWaitResolves ==
  \A p \in Procs, w \in Waiters :
    /\ Exited(child[p]) => waits[p][w] \in {"none", "resolved"}
    /\ waits[p][w] = "resolved" => waitResult[p][w] = [code |-> exitCode[p], signal |-> signalCode[p]]

\* C27: a child whose spawn has failed (it has emitted 'error' and will not
\* emit 'exit') is not in the managed set and has no abort listener attached.
C27_FailedSpawnReleased ==
  \A p \in Procs :
    child[p] = "errored" => p \notin managed /\ p \notin listeners

SetPid(pid) == pid # NoPid
SetStr(str) == str # NoStr

\* the predicate of the contract: every set field constrains
Satisfies(proc, filter) ==
  /\ SetPid(filter.pid) => proc.pid = filter.pid
  /\ SetStr(filter.nameIncludes) => Includes(ToLower(proc.name), ToLower(filter.nameIncludes))
  /\ SetStr(filter.user) => proc.user = filter.user
  /\ SetStr(filter.binaryPathIncludes) =>
       Includes(ToLower(CmdOrEmpty(proc.cmd)), ToLower(filter.binaryPathIncludes))

\* C9: listProcesses(filter) returns exactly the entries of the unfiltered
\* table that satisfy every set field of the filter, pid 0 included, and the
\* whole table when no field is set.
C9_FilterExact ==
  lpResult.called =>
    lpResult.list = SelectSeq(MapNormalize(lpTable), LAMBDA proc : Satisfies(proc, lpFilter))

\* ===================================================================
\* Claims about mapEvent (specification MapSpec)
\* ===================================================================

\* C18: the event made of a raw signal has the type add -> create, change ->
\* change, unlink -> delete, addDir -> directory, unlinkDir -> directory, a
\* path that is absolute (the raw path itself when that is absolute, the raw
\* path joined onto cwd otherwise), and a relativePath that is that path
\* relative to cwd.
C18_CanonicalEvent ==
  mapped.done =>
    /\ mapped.event.type = EventType(mapped.signal)
    /\ mapped.event.path.abs
    /\ mapped.raw.abs => mapped.event.path = mapped.raw
    /\ ~mapped.raw.abs => mapped.event.path = Join(mapCwd, mapped.raw)
    /\ mapped.event.relativePath = Relative(mapCwd, mapped.event.path)

\* ===================================================================
\* Claims about the explicit requests and shutdown (specification ReqSpec)
\* ===================================================================

\* the replies to the requests of one operation
RepliesOf(op) == {i \in 1..Len(replies) : replies[i].op = op}

\* C14: getResourceUsage(pid) resolves with the sampler's result unchanged
\* when the sampler returned, and when the sampler raised it rejects with a
\* SystemBridgeError of code OPERATION_FAILED whose message names the pid
\* and whose cause is what the sampler raised; it resolves with no value
\* then.
C14_UsageOrTypedFailure ==
  \A i \in RepliesOf("getResourceUsage") :
    LET r == replies[i] IN
      /\ r.did.ok => r.kind = "resolved" /\ r.value.stat = r.did.stat /\ r.error = NoError
      /\ ~r.did.ok =>
            /\ r.kind = "rejected"
            /\ r.value = NoValue
            /\ r.error.name = "SystemBridgeError"
            /\ r.error.code = "OPERATION_FAILED"
            /\ r.error.message.pid = r.pid
            /\ r.error.cause = r.did.cause

\* C14 witness: the sampler raised for one pid and returned for another.
C14_Witness ==
  \E i, j \in RepliesOf("getResourceUsage") :
    /\ replies[i].kind = "rejected" /\ replies[i].error.cause = "ESRCH"
    /\ replies[j].kind = "resolved" /\ replies[j].value.stat = "stat2"
    /\ replies[i].pid # replies[j].pid

\* C15: killProcess(pid, signal) resolves with {success: true, signal: the
\* signal passed, SIGTERM when none was} when the delivery succeeds, rejects
\* with a SystemBridgeError of code OPERATION_FAILED that names the pid and
\* carries the cause when the delivery raises, and leaves the managed set as
\* it was, also when the pid is that of a managed child.
C15_KillProcessResult ==
  /\ \A i \in RepliesOf("killProcess") :
       LET r == replies[i] IN
         /\ r.did.ok =>
               /\ r.kind = "resolved"
               /\ r.value.success
               /\ r.value.signal = (IF r.signal = NoSignal THEN "SIGTERM" ELSE r.signal)
         /\ ~r.did.ok =>
               /\ r.kind = "rejected"
               /\ r.error.name = "SystemBridgeError"
               /\ r.error.code = "OPERATION_FAILED"
               /\ r.error.message.pid = r.pid
               /\ r.error.cause = r.did.cause
  /\ managed = {p \in Procs : child[p] = "running"}

\* C15 witness: killProcess without a signal reached the running managed
\* child, which is still in the managed set, and a second killProcess failed.
C15_Witness ==
  \E i, j \in RepliesOf("killProcess") :
    /\ replies[i].kind = "resolved" /\ replies[i].signal = NoSignal /\ replies[i].pid = 1
    /\ 1 \in managed /\ "SIGTERM" \in sent[1]
    /\ replies[j].kind = "rejected" /\ replies[j].error.cause = "ESRCH"

\* C19: every request that failed gave its caller a SystemBridgeError that
\* carries the pid or the command of the request and the underlying cause.
C19_TypedFailures ==
  \A i \in 1..Len(replies) :
    LET r == replies[i] IN
      ~r.did.ok =>
        /\ r.error.name = "SystemBridgeError"
        /\ r.pid # NoPid => r.error.message.pid = r.pid
        /\ r.command # NoCommand => r.error.message.command = r.command
        /\ r.error.cause = r.did.cause

\* C20: shutdown() calls dispose() of all five modules and its promise is
\* never rejected; it resolves once the promises of the async dispose()
\* calls have settled, whichever of them rejected.
C20_ShutdownResolves ==
  /\ shutP # "rejected"
  /\ shutP # "none" => \A m \in Modules : modP[m] # "none"
  /\ shutP = "resolved" => \A m \in Modules : modP[m] \in {"returned", "fulfilled", "rejected"}

\* C20 witness: shutdown() has resolved although the dispose() of the file
\* watcher and of the process manager both rejected.
C20_Witness ==
  /\ shutP = "resolved"
  /\ modP["fileWatcher"] = "rejected"
  /\ modP["processManager"] = "rejected"
  /\ modP["notifier"] = "returned"

\* ===================================================================
\* Claims about createLogger (specification LogSpec)
\* ===================================================================

\* the order of the levels
LevelOrder == <<"trace", "debug", "info", "warn", "error">>
Rank(l) == CHOOSE i \in 1..Len(LevelOrder) : LevelOrder[i] = l

\* C21: a call at level K on a logger configured with level L (info when
\* none is configured) reaches the sink for K, the supplied one if there is
\* one and the default one otherwise, with the same message and meta, exactly
\* when K is not below L in trace < debug < info < warn < error; a call below
\* L reaches no sink.
C21_LevelFilter ==
  logCall.level # NoLevel =>
    LET L == IF logConfig.level = NoLevel THEN "info" ELSE logConfig.level
    IN IF Rank(logCall.level) >= Rank(L)
         THEN /\ logGot.to = (IF logCall.level \in logConfig.sinks THEN "supplied" ELSE "default")
              /\ logGot.level = logCall.level
              /\ logGot.message = logCall.message
              /\ logGot.meta = logCall.meta
         ELSE logGot = NotForwarded

\* C21 witness: a logger configured at debug with its own debug sink got a
\* debug call with meta in that sink.
C21_Witness ==
  /\ logConfig = LogConfig("debug", {"debug"})
  /\ logCall = [level |-> "debug", message |-> "x", meta |-> "m"]
  /\ logGot.to = "supplied"
  /\ logGot.message = "x"

\* ===================================================================
\* Claims about execCommand (specification ExecSpec)
\* ===================================================================

\* C24: in every execCommand call, the timeout timer has sent SIGTERM only
\* if timeoutMs > 0 and it fired on a child that was still running; once the
\* call has settled, resolved or rejected, its timer is not pending; and with
\* timeoutMs <= 0 there is no timer at all.
C24_TimeoutTimerCleared ==
  \A e \in Execs :
    /\ exec[e].termSent =>
         exec[e].timeoutMs > 0 /\ exec[e].timer = "fired" /\ exec[e].firedOn = "running"
    /\ exec[e].promise \in {"resolved", "rejected"} => exec[e].timer # "pending"
    /\ exec[e].timeoutMs <= 0 => exec[e].timer = "none" /\ ~exec[e].termSent
    /\ (exec[e].timeoutMs > 0 /\ exec[e].child # "none") => exec[e].timer # "none"

\* C24 witness: of two calls with a timeout, one resolved on the exit of its
\* child before the timer fired, with the timer cleared, and one rejected on
\* a failed spawn, with the timer cleared.
C24_Witness ==
  \E e, f \in Execs :
    /\ exec[e].timeoutMs > 0 /\ exec[e].promise = "resolved" /\ exec[e].timer = "cleared"
    /\ exec[f].timeoutMs > 0 /\ exec[f].promise = "rejected" /\ exec[f].timer = "cleared"
    /\ exec[f].child = "errored"

====
